---------------------------- MODULE Spec2Model ----------------------------
(***************************************************************************)
(* Verification model of the news backend: the trending service with its   *)
(* location-grid cache (services/trending_service.go) and the LLM summary  *)
(* service with its memo table (services/llm_service.go).                  *)
(*                                                                         *)
(* Units.  Coordinates are integers in hundredths of a degree, distances   *)
(* are metres, radii are kilometres.  The clock `now` counts hours; the    *)
(* cache TTL is configured in seconds and the time window in hours, as in  *)
(* config.Config.  Relevance scores are integers in tenths.  Trending      *)
(* scores are integers in units of 1 / ScoreScale.                         *)
(*                                                                         *)
(* Storage queries (gorm) are taken to succeed; sync.Map operations and    *)
(* storage queries are the atomic steps, everything between two of them    *)
(* is local to the goroutine that runs it.                                 *)
(***************************************************************************)
EXTENDS Integers, Sequences, FiniteSets, TLC

VARIABLES
    now,            \* wall clock, in hours
    events,         \* table user_events, in insertion order
    cache,          \* TrendingService.cache: key -> *TrendingCache
    req,            \* one GetTrendingNews call per request goroutine
    wr,             \* the goroutine serving RecordEvent / InvalidateCache
    acked,          \* history: number of events whose RecordUserEvent returned nil
    summaryCache,   \* LLMService.summaryCache: articleID -> summary
    batch,          \* one GenerateSummariesBatch call: semaphore and workers
    single,         \* GetArticleByIDWithSummary calls, one per request goroutine
    issued,         \* history: external summarization calls issued per article
    failures,       \* history: external summarization calls that failed
    firstStored,    \* history: the first summary memoized per article
    search          \* one search / query request: intent parsing and ranking

vars == <<now, events, cache, req, wr, acked,
          summaryCache, batch, single, issued, failures, firstStored, search>>

trendingVars == <<now, events, cache, req, wr, acked>>
llmVars == <<summaryCache, batch, single, issued, failures, firstStored>>

-----------------------------------------------------------------------------
(* Bounds of the model *)

MaxTime == 2
MaxEvents == 2

(* Configuration (config.LoadConfig); TTL, window and maximum are scaled   *)
(* to the clock and to the article store of the model.                     *)
TrendingCacheTTL == 7200
TrendingTimeWindow == 3
MaxArticlesReturn == 2
TrendingRadius == 50
ScoreThreshold == 7

Reqs == {"r1", "r2"}

NoEntry == [none |-> TRUE]

(* Summaries are triples <<text, article, k>>; the two fixed texts of      *)
(* GenerateSummary carry no article and no call number.                    *)
NoSummary == <<"", 0, 0>>
SummaryInsufficient == <<"Summary unavailable - insufficient content.", 0, 0>>
SummaryUnavailable == <<"Summary unavailable.", 0, 0>>

Abs(x) == IF x < 0 THEN -x ELSE x

(* Go's int(x / y) for floats truncates toward zero. *)
TruncDiv(x, y) == IF x >= 0 THEN x \div y ELSE -((-x) \div y)

-----------------------------------------------------------------------------
(* Article store (table articles, loaded once by database.LoadNewsData)    *)

ArticleStore ==
    { [ID |-> "a1", RelevanceScore |-> 9, Latitude |-> 6,  Longitude |-> 6],
      [ID |-> "a2", RelevanceScore |-> 7, Latitude |-> 6,  Longitude |-> 6],
      [ID |-> "a3", RelevanceScore |-> 3, Latitude |-> 58, Longitude |-> 6],
      [ID |-> "a4", RelevanceScore |-> 0, Latitude |-> 6,  Longitude |-> 6] }

ArticleIDs == { a.ID : a \in ArticleStore }

ArticleByID(id) == CHOOSE a \in ArticleStore : a.ID = id

(* models.EventTypeView / Click / Share *)
EventTypeView == "view"
EventTypeClick == "click"
EventTypeShare == "share"

validTypes == {EventTypeView, EventTypeClick, EventTypeShare}

GetEventWeightNoView(eventType) ==
    CASE eventType = EventTypeClick -> 2
      [] eventType = EventTypeShare -> 3
      [] OTHER -> 0

GetEventWeight(eventType) ==
    CASE eventType = EventTypeView  -> 1
      [] eventType = EventTypeClick -> 2
      [] eventType = EventTypeShare -> 3
      [] OTHER -> 1

-----------------------------------------------------------------------------
(* utils/geo.go *)

(* Haversine distance in metres.  On one meridian the formula reduces to   *)
(* EarthRadiusKm * dLat (6371 km * pi/180 = 1111.9493 m per hundredth of a *)
(* degree); the pairs of the model that differ in longitude are tabulated  *)
(* from the formula.                                                       *)
HaversineDistance(lat1, lon1, lat2, lon2) ==
    LET dLat == Abs(lat2 - lat1)
        dLon == Abs(lon2 - lon1)
    IN  CASE dLon = 0 -> (11119493 * dLat + 5000) \div 10000
          [] dLon = 2 /\ dLat = 0  -> 2224
          [] dLon = 2 /\ dLat = 8  -> 9169
          [] dLon = 2 /\ dLat = 52 -> 57864

IsWithinRadius(refLat, refLon, pointLat, pointLon, radius) ==
    HaversineDistance(refLat, refLon, pointLat, pointLon) <= radius * 1000

-----------------------------------------------------------------------------
(* utils/trending.go *)

ScoreScale == 2 * 100 * 10000

(* e^(-hoursAgo/12) in units of 1/10000 *)
CalculateRecencyFactor(hoursAgo) ==
    CASE hoursAgo = 0 -> 10000
      [] hoursAgo = 1 -> 9200
      [] hoursAgo = 2 -> 8465
      [] hoursAgo = 3 -> 7788
      [] hoursAgo = 4 -> 7165
      [] hoursAgo = 5 -> 6592
      [] OTHER -> 6065

(* eventCount * (totalWeight / eventCount) * recencyFactor *)
ComputeTrendingScoreAverage(eventCount, totalWeight, recencyFactor) ==
    IF eventCount = 0 THEN 0
    ELSE (totalWeight * recencyFactor) \div eventCount

ComputeTrendingScore(eventCount, totalWeight, recencyFactor) ==
    IF eventCount = 0 THEN 0
    ELSE (eventCount * totalWeight * recencyFactor) \div eventCount


-----------------------------------------------------------------------------
(* services/trending_service.go: scoring *)

RECURSIVE SumWeights(_, _, _)
(* totalWeight += GetEventWeight(type) * CalculateRecencyFactor(hoursAgo)  *)
SumWeights(idx, evs, t) ==
    IF idx = {} THEN 0
    ELSE LET i == CHOOSE j \in idx : TRUE
         IN  GetEventWeight(evs[i].EventType)
                 * CalculateRecencyFactor(t - evs[i].Timestamp)
             + SumWeights(idx \ {i}, evs, t)

getFallbackNoThreshold(lat, lon, radius) ==
    { [ID |-> a.ID,
       TrendingScore |-> a.RelevanceScore * ScoreScale,
       EventCount |-> 0] :
      a \in { b \in ArticleStore :
                IsWithinRadius(lat, lon, b.Latitude, b.Longitude, radius) } }

getFallbackNoRadius(lat, lon, radius) ==
    { [ID |-> a.ID,
       TrendingScore |-> a.RelevanceScore * ScoreScale,
       EventCount |-> 0] :
      a \in { b \in ArticleStore : b.RelevanceScore >= ScoreThreshold } }

(* getFallbackTrending: articles within the radius with relevance >=       *)
(* threshold, scored relevance * 10, EventCount 0.                         *)
getFallbackTrending(lat, lon, radius) ==
    { [ID |-> a.ID,
       TrendingScore |-> a.RelevanceScore * ScoreScale,
       EventCount |-> 0] :
      a \in { b \in ArticleStore :
                /\ IsWithinRadius(lat, lon, b.Latitude, b.Longitude, radius)
                /\ b.RelevanceScore >= ScoreThreshold } }

InTimeWindowStrict(ev, t) == ev.Timestamp > t - TrendingTimeWindow

(* lines 124-128: Where("timestamp >= ?", now - TrendingTimeWindow hours) *)
InTimeWindow(ev, t) == ev.Timestamp >= t - TrendingTimeWindow

(* calculateTrendingScores: the unordered collection of scored articles    *)
(* (the code appends them in map-iteration order).                         *)
calculateTrendingScores(lat, lon, radius, evs, t) ==
    LET inWindow == { i \in 1..Len(evs) : InTimeWindow(evs[i], t) }
        inRange  == { i \in inWindow :
                        IsWithinRadius(lat, lon, evs[i].Latitude, evs[i].Longitude, radius) }
        ids      == { evs[i].ArticleID : i \in inRange }
        eventsOf(id) == { i \in inRange : evs[i].ArticleID = id }
        scoreOf(id) ==
            LET article == ArticleByID(id)
                distance == HaversineDistance(lat, lon, article.Latitude, article.Longitude)
                n == Cardinality(eventsOf(id))
                totalWeight == SumWeights(eventsOf(id), evs, t)
                base == ComputeTrendingScore(n, totalWeight, 1)
            IN  base * (100 + 2 * article.RelevanceScore)
                     * (IF distance < 10000 THEN 3 ELSE 2)
    IN  IF ids = {} THEN getFallbackTrending(lat, lon, radius)
        ELSE { [ID |-> id, TrendingScore |-> scoreOf(id),
                EventCount |-> Cardinality(eventsOf(id))] :
               id \in ids \cap ArticleIDs }

(* sort.Slice by TrendingScore descending: every ordering of the scored    *)
(* articles with non-increasing scores (sort.Slice is not stable and the   *)
(* input order is the map's iteration order).                              *)
SortedByScore(S) ==
    { s \in [1..Cardinality(S) -> S] :
        /\ \A i, j \in DOMAIN s : i # j => s[i] # s[j]
        /\ \A i, j \in DOMAIN s : i < j => s[i].TrendingScore >= s[j].TrendingScore }

LimitResultsTail(s, limit) ==
    IF Len(s) > limit THEN SubSeq(s, Len(s) - limit + 1, Len(s)) ELSE s

(* if len(trendingArticles) > limit { trendingArticles[:limit] } *)
LimitResults(s, limit) == IF Len(s) > limit THEN SubSeq(s, 1, limit) ELSE s

-----------------------------------------------------------------------------
(* services/trending_service.go: location-grid cache *)

getCacheKeyNoLon(lat, lon, radius) ==
    <<TruncDiv(lat, 5), 0, TruncDiv(radius, 10)>>

(* getCacheKey: "trending_%d_%d_%d" of the three truncated cells *)
getCacheKey(lat, lon, radius) ==
    <<TruncDiv(lat, 5), TruncDiv(lon, 5), TruncDiv(radius, 10)>>

IsFreshInverted(entry, t) == (t - entry.CachedAt) * 3600 >= TrendingCacheTTL

IsFreshInclusive(entry, t) == (t - entry.CachedAt) * 3600 <= TrendingCacheTTL

(* time.Since(cache.CachedAt).Seconds() < float64(cfg.TrendingCacheTTL) *)
IsFresh(entry, t) == (t - entry.CachedAt) * 3600 < TrendingCacheTTL

RangeKeysFirstOnly(c) ==
    LET stored == { k \in DOMAIN c : c[k] # NoEntry }
    IN  IF stored = {} THEN {} ELSE { CHOOSE k \in stored : TRUE }

(* The keys sync.Map.Range is bound to visit: those stored when it starts *)
RangeKeys(c) == { k \in DOMAIN c : c[k] # NoEntry }

getCacheSize == Cardinality({ k \in DOMAIN cache : cache[k] # NoEntry })


-----------------------------------------------------------------------------
(* Inputs of the requests *)

(* Queries <<lat, lon, radius>>.  Race: two neighbouring cells, default      *)
(* radius.  Grid: latitudes 0.04 / 0.06 / 0.08 and longitudes 0.04 / 0.06   *)
(* on both sides of the 0.05 cell border, radii 0 (default 50), 55 and 60.  *)
RaceQueries == { <<4, 6, 0>>, <<6, 6, 0>> }
GridQueries == { <<4, 6, 0>>, <<6, 6, 0>>, <<8, 6, 55>>, <<6, 4, 0>>, <<6, 6, 60>> }
ScoreQueries == { <<6, 6, 0>>, <<6, 6, 60>>, <<58, 6, 0>> }
(* Latitudes -0.06 / -0.03 / 0.03 / 0.06 on both sides of the equator *)
SignQueries == { <<0 - 6, 6, 0>>, <<0 - 3, 6, 0>>, <<3, 6, 0>>, <<6, 6, 0>> }
Limits == { 0, 1, MaxArticlesReturn + 1 }
RaceLimits == { 0, 1 }
(* `limit` is bound from the query string into an int without validation *)
AnyLimits == { 0 - 1, 0, 1, MaxArticlesReturn + 1 }

EventArticles == { "a1" }
EventPoints == { <<6, 6>> }
RawEventTypes == { "SHARE", "like" }

(* if radius == 0 { radius = cfg.TrendingRadius } *)
EffectiveRadius(radius) == IF radius = 0 THEN TrendingRadius ELSE radius

(* if limit == 0 || limit > cfg.MaxArticlesReturn { limit = cfg.MaxArticlesReturn } *)
EffectiveLimit(limit) ==
    IF limit = 0 \/ limit > MaxArticlesReturn THEN MaxArticlesReturn ELSE limit

Keys == { getCacheKey(q[1], q[2], EffectiveRadius(q[3])) :
            q \in GridQueries \cup RaceQueries \cup ScoreQueries \cup SignQueries }

(* strings.ToLower on the event types of the model *)
ToLower(s) ==
    CASE s = "SHARE" -> "share"
      [] s = "VIEW"  -> "view"
      [] s = "CLICK" -> "click"
      [] OTHER -> s

IdleReq ==
    [pc |-> "idle", lat |-> 0, lon |-> 0, radius |-> 0, argLimit |-> 0, limit |-> 0,
     entry |-> NoEntry, hit |-> FALSE, expired |-> FALSE, at |-> 0, since |-> 0,
     found |-> NoEntry, summaries |-> <<>>, i |-> 0]

IdleWr ==
    [pc |-> "idle", op |-> "none", eventType |-> "", articleID |-> "", userID |-> "",
     point |-> <<0, 0>>,
     must |-> {}, may |-> {}, err |-> "", concurrent |-> FALSE, removed |-> 0]

Running(r) == req[r].pc \notin {"idle", "done"}

KeyOf(r) == getCacheKey(req[r].lat, req[r].lon, req[r].radius)

-----------------------------------------------------------------------------
(* TrendingService.GetTrendingNews, one step per shared-memory operation *)

(* lines 44-54: the arguments, the defaults and the cache key *)
ReqStart(r, queries, limits) ==
    /\ req[r].pc = "idle"
    /\ \E q \in queries, lim \in limits :
         req' = [req EXCEPT ![r] =
                   [IdleReq EXCEPT !.pc = "lookup",
                                   !.lat = q[1], !.lon = q[2],
                                   !.radius = EffectiveRadius(q[3]),
                                   !.argLimit = lim,
                                   !.limit = EffectiveLimit(lim),
                                   !.since = acked]]
    /\ wr' = IF wr.pc = "idle" THEN wr ELSE [wr EXCEPT !.concurrent = TRUE]
    /\ UNCHANGED <<now, events, cache, acked, llmVars, search>>

(* getFromCache, lines 243-249: Load and the freshness test.  `found` is a  *)
(* history field: the expired entry the Load returned, kept until Delete.  *)
ReqLookup(r) ==
    /\ req[r].pc = "lookup"
    /\ LET cached == cache[KeyOf(r)]
       IN  \/ /\ cached = NoEntry
              /\ req' = [req EXCEPT ![r].pc = "calc", ![r].at = now]
           \/ /\ cached # NoEntry
              /\ IsFresh(cached, now)
              /\ req' = [req EXCEPT ![r].pc = "done", ![r].hit = TRUE,
                                    ![r].entry = cached, ![r].at = now]
           \/ /\ cached # NoEntry
              /\ ~IsFresh(cached, now)
              /\ req' = [req EXCEPT ![r].pc = "evict", ![r].expired = TRUE,
                                    ![r].at = now, ![r].found = cached]
    /\ UNCHANGED <<now, events, cache, wr, acked, llmVars, search>>

(* getFromCache, lines 251-253: s.cache.Delete(key) *)
ReqEvict(r) ==
    /\ req[r].pc = "evict"
    /\ cache' = [cache EXCEPT ![KeyOf(r)] = NoEntry]
    /\ req' = [req EXCEPT ![r].pc = "calc", ![r].found = NoEntry]
    /\ UNCHANGED <<now, events, wr, acked, llmVars, search>>

(* lines 74-75: trendingArticles[:limit] is evaluated when len > limit; a  *)
(* negative bound is a run-time panic (slice bounds out of range)          *)
SlicePanics(s, limit) == Len(s) > limit /\ limit < 0

(* lines 62-84: read the events, score, sort, truncate, build the entry.   *)
(* The clock reads of lines 124, 152 and 81 fall in one tick.  evSeen is a *)
(* history field: how many events the table held when it was read.         *)
(* LLMSummary[j] is the field Articles[j].LLMSummary of the slice, kept    *)
(* beside the scored records; the stored articles carry no summary.        *)
ReqCalc(r) ==
    /\ req[r].pc = "calc"
    /\ \E sorted \in SortedByScore(calculateTrendingScores(
                        req[r].lat, req[r].lon, req[r].radius, events, now)) :
         req' = IF SlicePanics(sorted, req[r].limit)
                THEN [req EXCEPT ![r].pc = "panic"]
                ELSE [req EXCEPT ![r].pc = "put",
                            ![r].entry =
                                [Articles |-> LimitResults(sorted, req[r].limit),
                                 CachedAt |-> now,
                                 Location |-> <<req[r].lat, req[r].lon>>,
                                 RadiusKm |-> req[r].radius,
                                 evSeen   |-> Len(events),
                                 LLMSummary |->
                                     [j \in 1..Len(LimitResults(sorted, req[r].limit))
                                        |-> NoSummary]]]
    /\ UNCHANGED <<now, events, cache, wr, acked, llmVars, search>>

(* putInCache, line 261: s.cache.Store(key, cache), and the return *)
ReqPut(r) ==
    /\ req[r].pc = "put"
    /\ cache' = [cache EXCEPT ![KeyOf(r)] = req[r].entry]
    /\ req' = [req EXCEPT ![r].pc = "done"]
    /\ UNCHANGED <<now, events, wr, acked, llmVars, search>>

(* the handler has written its response; the goroutine is free again *)
ReqFinish(r) ==
    /\ req[r].pc = "done"
    /\ req' = [req EXCEPT ![r] = IdleReq]
    /\ UNCHANGED <<now, events, cache, wr, acked, llmVars, search>>

(* gin's Recovery middleware (gin.Default) answers a panicking handler     *)
(* with status 500; the goroutine is free again                            *)
ReqRecover(r) ==
    /\ req[r].pc = "panic"
    /\ req' = [req EXCEPT ![r] = IdleReq]
    /\ UNCHANGED <<now, events, cache, wr, acked, llmVars, search>>

-----------------------------------------------------------------------------
(* TrendingHandler.RecordEvent -> TrendingService.RecordUserEvent, and     *)
(* TrendingHandler.InvalidateCache -> TrendingService.InvalidateCache      *)

ValidTypeAny(eventType) == eventType # ""

(* if !validTypes[eventType] { return error } *)
ValidType(eventType) == eventType \in validTypes

(* handler lines 97-106 and service lines 279-289: normalise, validate *)
RecordStart(articles, rawTypes, points) ==
    /\ wr.pc = "idle"
    /\ Len(events) < MaxEvents
    /\ \E a \in articles, raw \in rawTypes, p \in points :
         LET eventType == ToLower(raw)
             call == [IdleWr EXCEPT !.op = "record", !.eventType = eventType,
                                    !.articleID = a, !.userID = "u1", !.point = p,
                                    !.concurrent = \E r \in Reqs : Running(r)]
         IN  wr' = IF ValidType(eventType)
                   THEN [call EXCEPT !.pc = "create"]
                   ELSE [call EXCEPT !.pc = "done", !.err = "invalid event type"]
    /\ UNCHANGED <<now, events, cache, req, acked, llmVars, search>>

CreateOverLast(table, row) ==
    IF table = <<>> THEN <<row>> ELSE [table EXCEPT ![Len(table)] = row]

(* s.db.Create(&event): INSERT of one row *)
Create(table, row) == Append(table, row)

(* lines 291-303: s.db.Create(&event) *)
RecordCreate ==
    /\ wr.pc = "create"
    /\ events' = Create(events,
                    [ArticleID |-> wr.articleID, UserID |-> wr.userID,
                     EventType |-> wr.eventType,
                     Latitude |-> wr.point[1], Longitude |-> wr.point[2],
                     Timestamp |-> now])
    /\ wr' = [wr EXCEPT !.pc = "invalidate"]
    /\ UNCHANGED <<now, cache, req, acked, llmVars, search>>

(* POST /trending/cache/invalidate *)
InvalidateStart ==
    /\ wr.pc = "idle"
    /\ wr' = [IdleWr EXCEPT !.op = "invalidate", !.pc = "invalidate",
                            !.concurrent = \E r \in Reqs : Running(r)]
    /\ UNCHANGED <<now, events, cache, req, acked, llmVars, search>>

(* InvalidateCache, line 267: Range starts.  It visits every key stored    *)
(* now and may visit keys stored while it runs.                            *)
RangeStart ==
    /\ wr.pc = "invalidate"
    /\ wr' = [wr EXCEPT !.pc = "range",
                        !.must = RangeKeys(cache),
                        !.may = Keys \ RangeKeys(cache)]
    /\ UNCHANGED <<now, events, cache, req, acked, llmVars, search>>

(* line 268: s.cache.Delete(key) for a visited key *)
RangeDelete ==
    /\ wr.pc = "range"
    /\ \E k \in wr.must \cup { j \in wr.may : cache[j] # NoEntry } :
         /\ cache' = [cache EXCEPT ![k] = NoEntry]
         /\ wr' = [wr EXCEPT !.must = @ \ {k}, !.may = @ \ {k},
                             !.removed = IF cache[k] # NoEntry THEN @ + 1 ELSE @]
    /\ UNCHANGED <<now, events, req, acked, llmVars, search>>

(* lines 275-276 and 311: Range is over, the call returns *)
WrReturn ==
    /\ wr.pc = "range"
    /\ wr.must = {}
    /\ wr' = [wr EXCEPT !.pc = "done", !.may = {}]
    /\ acked' = IF wr.op = "record" THEN acked + 1 ELSE acked
    /\ UNCHANGED <<now, events, cache, req, llmVars, search>>

WrFinish ==
    /\ wr.pc = "done"
    /\ wr' = IdleWr
    /\ UNCHANGED <<now, events, cache, req, acked, llmVars, search>>

Tick ==
    /\ now < MaxTime
    /\ now' = now + 1
    /\ UNCHANGED <<events, cache, req, wr, acked, llmVars, search>>


-----------------------------------------------------------------------------
(* services/llm_service.go *)

(* Bounds of the summary model *)
MaxBatch == 6
MaxFailures == 1

(* semaphore := make(chan struct{}, 5) *)
SemaphoreCap == 5

(* if len(text) < 20 *)
MinTextLen == 20

(* Articles handed to the summarizer: 1..MaxBatch carry a full description, *)
(* article 0 a description shorter than MinTextLen.                         *)
SummArticles == 0..MaxBatch

DescriptionLen(a) == IF a = 0 THEN 10 ELSE 200

Singles == {"g1", "g2"}

(* The text of a successful response.  The provider may answer every call   *)
(* differently (temperature 0.3): the k-th call for an article returns the  *)
(* text <<"summary", article, k>>.                                          *)
ResponseText(a, k) == <<"summary", a, k>>

LoadAnyStored(m, a) ==
    IF \E b \in DOMAIN m : m[b] # NoSummary
    THEN m[CHOOSE b \in DOMAIN m : m[b] # NoSummary]
    ELSE NoSummary

(* s.summaryCache.Load(articleID) *)
LoadSummary(m, a) == m[a]

EntryOutcomeNoCache(m, a) ==
    IF DescriptionLen(a) < MinTextLen THEN "short" ELSE "call"

(* GenerateSummary lines 115-128: what the call does on entry *)
EntryOutcome(m, a) ==
    IF LoadSummary(m, a) # NoSummary THEN "hit"
    ELSE IF DescriptionLen(a) < MinTextLen THEN "short"
    ELSE "call"

CanAcquireAlways(held) == held >= 0

(* semaphore <- struct{}{} proceeds while the channel buffer is not full *)
CanAcquire(held) == held < SemaphoreCap

ReleaseNone(held) == held

(* defer func() { <-semaphore }(): one slot is given back *)
Release(held) == held - 1

(* history fields `memoAtEntry` (the memo entry the call found) and        *)
(* `storedAtEntry` (the first summary memoized before the call began)      *)
IdleCall ==
    [pc |-> "idle", article |-> 0, summary |-> NoSummary, called |-> FALSE,
     callNo |-> 0, err |-> FALSE,
     memoAtEntry |-> NoSummary, storedAtEntry |-> NoSummary]

IdleBatch == [pc |-> "idle", articles |-> <<>>, held |-> 0, w |-> <<>>]

(* GenerateSummary from its entry to the external call or the early return *)
Enter(call, a) ==
    LET outcome == EntryOutcome(summaryCache, a)
        base == [IdleCall EXCEPT !.article = a,
                                 !.memoAtEntry = summaryCache[a],
                                 !.storedAtEntry = firstStored[a]]
    IN  CASE outcome = "hit" ->
               [base EXCEPT !.pc = "done", !.summary = LoadSummary(summaryCache, a)]
          [] outcome = "short" ->
               [base EXCEPT !.pc = "done", !.summary = SummaryInsufficient]
          [] outcome = "call" ->
               [base EXCEPT !.pc = "call", !.called = TRUE,
                            !.callNo = issued[a] + 1]

OnCallErrorNoSummary(call) == [call EXCEPT !.pc = "done", !.err = TRUE]

(* lines 142-145: err != nil, the fixed text is returned and nothing stored *)
OnCallError(call) ==
    [call EXCEPT !.pc = "done", !.err = TRUE, !.summary = SummaryUnavailable]

(* line 147: the response of this very call *)
OnCallResponse(call) ==
    [call EXCEPT !.pc = "store",
                 !.summary = ResponseText(call.article, call.callNo)]

IssuedAfter(call, a) ==
    IF call.pc = "call" THEN [issued EXCEPT ![a] = @ + 1] ELSE issued

(* GenerateSummariesBatch lines 156-172: one goroutine per article *)
BatchStart(articles) ==
    /\ batch.pc = "idle"
    /\ batch' = [pc |-> "running", articles |-> articles, held |-> 0,
                 w |-> [i \in DOMAIN articles |-> [IdleCall EXCEPT !.pc = "wait",
                                                        !.article = articles[i]]]]
    /\ UNCHANGED <<summaryCache, single, issued, failures, firstStored, trendingVars, search>>

(* lines 164-170: acquire a slot, enter GenerateSummary.  A goroutine that *)
(* returns without an external call writes its summary and releases the    *)
(* slot in the same step.                                                   *)
WorkerEnter(i) ==
    /\ batch.pc = "running"
    /\ i \in DOMAIN batch.w
    /\ batch.w[i].pc = "wait"
    /\ CanAcquire(batch.held)
    /\ LET call == Enter(batch.w[i], batch.articles[i])
       IN  /\ batch' = [batch EXCEPT !.w[i] = call,
                                     !.held = IF call.pc = "call" THEN @ + 1 ELSE @]
           /\ issued' = IssuedAfter(call, batch.articles[i])
    /\ UNCHANGED <<summaryCache, single, failures, firstStored, trendingVars, search>>

(* lines 142-145: the external call returns an error *)
WorkerCallFails(i) ==
    /\ batch.pc = "running"
    /\ i \in DOMAIN batch.w
    /\ batch.w[i].pc = "call"
    /\ failures < MaxFailures
    /\ failures' = failures + 1
    /\ batch' = [batch EXCEPT !.w[i] = OnCallError(@), !.held = Release(@)]
    /\ UNCHANGED <<summaryCache, single, issued, firstStored, trendingVars, search>>

(* line 147: the external call returns a response *)
WorkerCallReturns(i) ==
    /\ batch.pc = "running"
    /\ i \in DOMAIN batch.w
    /\ batch.w[i].pc = "call"
    /\ batch' = [batch EXCEPT !.w[i] = OnCallResponse(@)]
    /\ UNCHANGED <<summaryCache, single, issued, failures, firstStored, trendingVars, search>>

(* line 150: s.summaryCache.Store; lines 165-167: write the field, release *)
WorkerStore(i) ==
    /\ batch.pc = "running"
    /\ i \in DOMAIN batch.w
    /\ batch.w[i].pc = "store"
    /\ LET a == batch.articles[i]
       IN  /\ summaryCache' = [summaryCache EXCEPT ![a] = batch.w[i].summary]
           /\ firstStored' = IF firstStored[a] = NoSummary
                             THEN [firstStored EXCEPT ![a] = batch.w[i].summary]
                             ELSE firstStored
    /\ batch' = [batch EXCEPT !.w[i].pc = "done", !.held = Release(@)]
    /\ UNCHANGED <<single, issued, failures, trendingVars, search>>

(* line 174: wg.Wait() returns once every goroutine is done *)
BatchJoin ==
    /\ batch.pc = "running"
    /\ \A i \in DOMAIN batch.w : batch.w[i].pc = "done"
    /\ batch' = [batch EXCEPT !.pc = "done"]
    /\ UNCHANGED <<summaryCache, single, issued, failures, firstStored, trendingVars, search>>

BatchFinish ==
    /\ batch.pc = "done"
    /\ batch' = IdleBatch
    /\ UNCHANGED <<summaryCache, single, issued, failures, firstStored, trendingVars, search>>

(* NewsService.GetArticleByIDWithSummary: GenerateSummary with no semaphore *)
SingleEnter(g, articles) ==
    /\ single[g].pc = "idle"
    /\ \E a \in articles :
         LET call == Enter(single[g], a)
         IN  /\ single' = [single EXCEPT ![g] = call]
             /\ issued' = IssuedAfter(call, a)
    /\ UNCHANGED <<summaryCache, batch, failures, firstStored, trendingVars, search>>

SingleCallFails(g) ==
    /\ single[g].pc = "call"
    /\ failures < MaxFailures
    /\ failures' = failures + 1
    /\ single' = [single EXCEPT ![g] = OnCallError(@)]
    /\ UNCHANGED <<summaryCache, batch, issued, firstStored, trendingVars, search>>

SingleCallReturns(g) ==
    /\ single[g].pc = "call"
    /\ single' = [single EXCEPT ![g] = OnCallResponse(@)]
    /\ UNCHANGED <<summaryCache, batch, issued, failures, firstStored, trendingVars, search>>

SingleStore(g) ==
    /\ single[g].pc = "store"
    /\ LET a == single[g].article
       IN  /\ summaryCache' = [summaryCache EXCEPT ![a] = single[g].summary]
           /\ firstStored' = IF firstStored[a] = NoSummary
                             THEN [firstStored EXCEPT ![a] = single[g].summary]
                             ELSE firstStored
    /\ single' = [single EXCEPT ![g].pc = "done"]
    /\ UNCHANGED <<batch, issued, failures, trendingVars, search>>

SingleFinish(g) ==
    /\ single[g].pc = "done"
    /\ single' = [single EXCEPT ![g] = IdleCall]
    /\ UNCHANGED <<summaryCache, batch, issued, failures, firstStored, trendingVars, search>>

-----------------------------------------------------------------------------
(* TrendingService.GetTrendingNewsWithSummaries, after GetTrendingNews has *)
(* returned (pc "done"): req[r].entry is the *TrendingCache it returned    *)
(* and entry.Articles the slice trendingArticles, which shares its backing *)
(* array with the Articles of the cached object.                           *)

(* the article number the summarizer model uses for an article id *)
SummaryNo(id) ==
    CASE id = "a1" -> 1
      [] id = "a2" -> 2
      [] id = "a3" -> 3
      [] OTHER -> 4

(* What GenerateSummary can return for an article with a full description: *)
(* the text of a response, or the fixed text when the call failed.         *)
BatchOutcomes(id) == { ResponseText(SummaryNo(id), 1), SummaryUnavailable }

(* Two references to one TrendingCache object.  A request that allocates   *)
(* once, with a centre no other request uses, is identified by Location    *)
(* and CachedAt.                                                           *)
SameObject(e, f) ==
    /\ e # NoEntry
    /\ f # NoEntry
    /\ e.Location = f.Location
    /\ e.CachedAt = f.CachedAt

(* trendingArticles[i].LLMSummary = s as seen through the reference e *)
StoreSummary(e, obj, i, s) ==
    IF SameObject(e, obj) THEN [e EXCEPT !.LLMSummary[i] = s] ELSE e

(* lines 101-111: the private copy `articles` and GenerateSummariesBatch   *)
(* on it; the batch has returned with one summary per article              *)
ReqSummarize(r) ==
    /\ req[r].pc = "done"
    /\ LET list == req[r].entry.Articles
       IN  \E sums \in [1..Len(list) -> UNION { BatchOutcomes(id) : id \in ArticleIDs }] :
               /\ \A j \in 1..Len(list) : sums[j] \in BatchOutcomes(list[j].ID)
               /\ req' = [req EXCEPT ![r].pc = "copy", ![r].summaries = sums, ![r].i = 1]
    /\ UNCHANGED <<now, events, cache, wr, acked, llmVars, search>>

(* lines 114-116, one iteration: trendingArticles[i].LLMSummary =          *)
(* articles[i].LLMSummary, a plain store into the shared backing array,    *)
(* seen through every reference to the object                              *)
ReqCopyBack(r) ==
    /\ req[r].pc = "copy"
    /\ req[r].i <= Len(req[r].entry.Articles)
    /\ LET obj == req[r].entry
           i == req[r].i
           s == req[r].summaries[i]
       IN  /\ cache' = [k \in Keys |-> StoreSummary(cache[k], obj, i, s)]
           /\ req' = [q \in Reqs |->
                        IF q = r
                        THEN [req[q] EXCEPT !.entry = StoreSummary(@, obj, i, s),
                                            !.i = i + 1]
                        ELSE [req[q] EXCEPT !.entry = StoreSummary(@, obj, i, s)]]
    /\ UNCHANGED <<now, events, wr, acked, llmVars, search>>

(* line 118: return trendingArticles, cache, nil *)
ReqReturn(r) ==
    /\ req[r].pc = "copy"
    /\ req[r].i > Len(req[r].entry.Articles)
    /\ req' = [req EXCEPT ![r].pc = "returned"]
    /\ UNCHANGED <<now, events, cache, wr, acked, llmVars, search>>

-----------------------------------------------------------------------------
(* utils/sorting.go: search relevance *)

(* Weights in hundredths *)
WeightTitleMatch == 50
WeightDescriptionMatch == 30
WeightWordMatch == 20
WeightTextScore == 6
WeightRelevanceScore == 4

(* Texts are sequences of words; a word occurs in a text only as a whole   *)
(* word, so strings.Contains on a phrase is the occurrence of its words in *)
(* a row and strings.Fields is the sequence itself.                        *)
ToLowerWord(w) ==
    CASE w = "Climate" -> "climate"
      [] w = "Change"  -> "change"
      [] w = "Summit"  -> "summit"
      [] w = "Weather" -> "weather"
      [] w = "Report"  -> "report"
      [] w = "Impact"  -> "impact"
      [] w = "Paris"   -> "paris"
      [] w = "Rome"    -> "rome"
      [] OTHER -> w

(* strings.ToLower *)
ToLowerText(t) == [i \in DOMAIN t |-> ToLowerWord(t[i])]

ContainsNonEmpty(text, phrase) ==
    /\ Len(phrase) > 0
    /\ \E k \in 0..Len(text) :
           /\ k + Len(phrase) <= Len(text)
           /\ \A i \in 1..Len(phrase) : text[k + i] = phrase[i]

(* strings.Contains(text, phrase): true for the empty phrase *)
Contains(text, phrase) ==
    \E k \in 0..Len(text) :
        /\ k + Len(phrase) <= Len(text)
        /\ \A i \in 1..Len(phrase) : text[k + i] = phrase[i]

(* calculateTextMatchScore, in hundredths *)
calculateTextMatchScore(item, queryLower) ==
    LET title == ToLowerText(item.Title)
        desc  == ToLowerText(item.Description)
        words == queryLower
        matchedWords ==
            Cardinality({ i \in DOMAIN words :
                            Contains(title, <<words[i]>>) \/ Contains(desc, <<words[i]>>) })
    IN  (IF Contains(title, queryLower) THEN WeightTitleMatch ELSE 0)
      + (IF Contains(desc, queryLower) THEN WeightDescriptionMatch ELSE 0)
      + (IF Len(words) > 0 THEN (WeightWordMatch * matchedWords) \div Len(words) ELSE 0)

CombinedScoreRelevanceOnly(item, query) ==
    item.RelevanceScore * 10 * WeightRelevanceScore

(* textScore*WeightTextScore + relevanceScore*WeightRelevanceScore, in     *)
(* thousandths (RelevanceScore is in tenths)                               *)
CombinedScore(item, query) ==
    calculateTextMatchScore(item, ToLowerText(query)) * WeightTextScore
        + item.RelevanceScore * 10 * WeightRelevanceScore

(* SortBySearchRelevance: the score map, keyed by article ID *)
SearchScores(items, query) ==
    [id \in { items[i].ID : i \in DOMAIN items } |->
        CombinedScore(CHOOSE a \in { items[i] : i \in DOMAIN items } : a.ID = id, query)]

(* SortByScoreMap(items, scores, Descending): sort.Slice is not stable, so *)
(* every reordering of the items with non-increasing scores may result     *)
SortByScoreMap(items, scores) ==
    { s \in [DOMAIN items -> { items[i] : i \in DOMAIN items }] :
        /\ \E f \in [DOMAIN items -> DOMAIN items] :
               /\ \A i, j \in DOMAIN items : i # j => f[i] # f[j]
               /\ \A i \in DOMAIN items : s[i] = items[f[i]]
        /\ \A i, j \in DOMAIN s : i < j => scores[s[i].ID] >= scores[s[j].ID] }

NoNamedEntities == {}

(* models.IntentResponse; Entities is a map, here a set of <<key, value>>  *)
(* pairs with a flag for the nil map                                       *)
NoIntent ==
    [Intent |-> "", EntitiesNil |-> TRUE, Entities |-> {},
     NamedEntities |-> NoNamedEntities]

(* the chat completion response: number of choices, content of the first   *)
(* choice (with or without a markdown fence around the body)               *)
NoResponse == [choices |-> 0, fenced |-> FALSE, kind |-> "none", value |-> NoIntent]

IdleSearch ==
    [pc |-> "idle", query |-> <<>>, namedEntities |-> NoNamedEntities,
     items |-> <<>>, scores |-> <<>>, input |-> <<>>,
     resp |-> NoResponse, callErr |-> FALSE, parseErr |-> FALSE, intent |-> NoIntent]

(* models.Intent* *)
IntentCategory == "category"
IntentSource == "source"
IntentSearch == "search"
IntentNearby == "nearby"
IntentScore == "score"

validIntents == {IntentCategory, IntentSource, IntentSearch, IntentNearby, IntentScore}

HasKey(entities, key) == \E kv \in entities : kv[1] = key

(* lines 59-66 and 77-85: the fallback response *)
FallbackIntent(query) ==
    [Intent |-> IntentSearch, EntitiesNil |-> FALSE, Entities |-> {<<"query", query>>},
     NamedEntities |-> NoNamedEntities]

(* lines 71-74: TrimPrefix "```json" / "```", TrimSuffix "```", TrimSpace *)
StripFence(resp) == [resp EXCEPT !.fenced = FALSE]

(* json.Unmarshal into IntentResponse: fails on text that is not JSON (a   *)
(* fence left around the body included); the JSON value null leaves the    *)
(* zero value                                                              *)
UnmarshalFails(resp) == resp.fenced \/ resp.kind = "garbage"

Unmarshal(resp) == IF resp.kind = "null" THEN NoIntent ELSE resp.value

ValidateIntentKeep(intent) == intent

(* lines 88-100: an intent outside validIntents becomes search *)
ValidateIntent(intent) == IF intent \in validIntents THEN intent ELSE IntentSearch

(* lines 68-110: strip the fence, unmarshal, validate, complete *)
ParseContent(resp, query) ==
    IF UnmarshalFails(StripFence(resp)) THEN FallbackIntent(query)
    ELSE LET r == Unmarshal(StripFence(resp))
             entities == IF r.EntitiesNil THEN {} ELSE r.Entities
         IN  [Intent |-> ValidateIntent(r.Intent),
              EntitiesNil |-> FALSE,
              Entities |-> IF HasKey(entities, "query") THEN entities
                           ELSE entities \cup {<<"query", query>>},
              NamedEntities |-> r.NamedEntities]

(* LLMService.ParseIntent, entered from SearchWithIntent / QueryWithIntent *)
IntentStart(queries) ==
    /\ search.pc = "idle"
    /\ \E q \in queries : search' = [IdleSearch EXCEPT !.pc = "intent-call", !.query = q]
    /\ UNCHANGED <<trendingVars, llmVars>>

(* lines 59-66: CreateChatCompletion returns an error *)
IntentCallFails ==
    /\ search.pc = "intent-call"
    /\ search' = [search EXCEPT !.pc = "parsed", !.callErr = TRUE,
                                !.intent = FallbackIntent(search.query)]
    /\ UNCHANGED <<trendingVars, llmVars>>

(* line 48: CreateChatCompletion returns a response *)
IntentCallReturns(responses) ==
    /\ search.pc = "intent-call"
    /\ \E r \in responses : search' = [search EXCEPT !.pc = "response", !.resp = r]
    /\ UNCHANGED <<trendingVars, llmVars>>

(* lines 68-110.  resp.Choices[0] on a response without choices is an      *)
(* index out of range: the goroutine panics.                               *)
IntentParse ==
    /\ search.pc = "response"
    /\ search' =
         IF search.resp.choices = 0
         THEN [search EXCEPT !.pc = "panic"]
         ELSE [search EXCEPT !.pc = "parsed",
                             !.parseErr = UnmarshalFails(StripFence(search.resp)),
                             !.intent = ParseContent(search.resp, search.query),
                             !.namedEntities =
                                 ParseContent(search.resp, search.query).NamedEntities]
    /\ UNCHANGED <<trendingVars, llmVars>>

(* the handler answers (gin's recovery answers 500 after a panic) *)
IntentFinish ==
    /\ search.pc \in {"parsed", "panic"}
    /\ search' = IdleSearch
    /\ UNCHANGED <<trendingVars, llmVars>>

(* applySorting, case sortBySearchRelevance: params.NamedEntities is not   *)
(* read.  `input` keeps the slice as it was fetched, `scores` the map.     *)
Rank ==
    /\ search.pc = "fetched"
    /\ \E sorted \in SortByScoreMap(search.items, SearchScores(search.items, search.query)) :
         search' = [search EXCEPT !.pc = "ranked", !.items = sorted,
                                  !.scores = SearchScores(search.items, search.query)]
    /\ UNCHANGED <<trendingVars, llmVars>>

-----------------------------------------------------------------------------
(* Specifications *)

LLMInit ==
    /\ summaryCache = [a \in SummArticles |-> NoSummary]
    /\ batch = IdleBatch
    /\ single = [g \in Singles |-> IdleCall]
    /\ issued = [a \in SummArticles |-> 0]
    /\ failures = 0
    /\ firstStored = [a \in SummArticles |-> NoSummary]

Init ==
    /\ now = 0
    /\ events = <<>>
    /\ cache = [k \in Keys |-> NoEntry]
    /\ req = [r \in Reqs |-> IdleReq]
    /\ wr = IdleWr
    /\ acked = 0
    /\ LLMInit
    /\ search = IdleSearch

(* A request goroutine running against event recording, invalidation and   *)
(* the clock, on two grid cells                                            *)
Next ==
    \/ ReqStart("r1", RaceQueries, RaceLimits)
    \/ ReqLookup("r1")
    \/ ReqEvict("r1")
    \/ ReqCalc("r1")
    \/ ReqPut("r1")
    \/ ReqFinish("r1")
    \/ RecordStart(EventArticles, RawEventTypes, EventPoints)
    \/ RecordCreate
    \/ InvalidateStart
    \/ RangeStart
    \/ RangeDelete
    \/ WrReturn
    \/ WrFinish
    \/ Tick

Spec == Init /\ [][Next]_vars

(* One request after another over the grid of coordinates, radii and       *)
(* limits, with the clock                                                  *)
NextGrid ==
    \/ ReqStart("r1", GridQueries, Limits)
    \/ ReqLookup("r1")
    \/ ReqEvict("r1")
    \/ ReqCalc("r1")
    \/ ReqPut("r1")
    \/ ReqFinish("r1")
    \/ Tick

SpecGrid == Init /\ [][NextGrid]_vars

(* One request after another at latitudes of both signs, with the clock *)
NextSign ==
    \/ ReqStart("r1", SignQueries, RaceLimits)
    \/ ReqLookup("r1")
    \/ ReqEvict("r1")
    \/ ReqCalc("r1")
    \/ ReqPut("r1")
    \/ ReqFinish("r1")
    \/ Tick

SpecSign == Init /\ [][NextSign]_vars

(* One request after another with any integer limit, with the clock *)
NextLimit ==
    \/ ReqStart("r1", ScoreQueries, AnyLimits)
    \/ ReqLookup("r1")
    \/ ReqEvict("r1")
    \/ ReqCalc("r1")
    \/ ReqPut("r1")
    \/ ReqFinish("r1")
    \/ ReqRecover("r1")
    \/ Tick

SpecLimit == Init /\ [][NextLimit]_vars

PairQueries == { <<6, 6, 0>> }
PairLimits == { 0 }

(* Two request goroutines on the same grid cell, with the clock *)
NextPair ==
    \/ \E r \in Reqs : ReqStart(r, PairQueries, PairLimits)
    \/ \E r \in Reqs : ReqLookup(r)
    \/ \E r \in Reqs : ReqEvict(r)
    \/ \E r \in Reqs : ReqCalc(r)
    \/ \E r \in Reqs : ReqPut(r)
    \/ \E r \in Reqs : ReqFinish(r)
    \/ Tick

SpecPair == Init /\ [][NextPair]_vars

(* Inputs of the scoring runs: two radii around one centre and the event   *)
(* table as earlier RecordUserEvent calls left it: events for a high- and  *)
(* a zero-relevance article, at the centre and at a far point, one of them *)
(* as old as the time window, one for an article located far from the      *)
(* centre and one for an article ID that is not in the article store       *)
(* (RecordUserEvent does not look the article up)                          *)
StoredEvent(a, type, lat, lon, ts) ==
    [ArticleID |-> a, UserID |-> "u1", EventType |-> type,
     Latitude |-> lat, Longitude |-> lon, Timestamp |-> ts]

ScoreEvents ==
    { StoredEvent("a4", EventTypeClick, 6, 6, 0 - TrendingTimeWindow),
      StoredEvent("a1", EventTypeShare, 6, 6, 0 - 1),
      StoredEvent("a1", EventTypeView, 6, 6, 0),
      StoredEvent("a4", EventTypeShare, 58, 6, 0),
      StoredEvent("a3", EventTypeView, 6, 6, 0),
      StoredEvent("a9", EventTypeClick, 6, 6, 0) }

(* the table in insertion order: Timestamp is time.Now() at insertion *)
EventLogs ==
    { log \in UNION { [1..n -> ScoreEvents] : n \in 0..MaxEvents } :
        \A i, j \in DOMAIN log : i < j => log[i].Timestamp <= log[j].Timestamp }

InitScore ==
    /\ now = 0
    /\ events \in EventLogs
    /\ cache = [k \in Keys |-> NoEntry]
    /\ req = [r \in Reqs |-> IdleReq]
    /\ wr = IdleWr
    /\ acked = 0
    /\ LLMInit
    /\ search = IdleSearch

(* One request after another over a given event table, with the clock *)
NextScore ==
    \/ ReqStart("r1", ScoreQueries, RaceLimits)
    \/ ReqLookup("r1")
    \/ ReqEvict("r1")
    \/ ReqCalc("r1")
    \/ ReqPut("r1")
    \/ ReqFinish("r1")
    \/ Tick

SpecScore == InitScore /\ [][NextScore]_vars

(* Two requests for one grid cell from two centres, each served once *)
EnrichQuery(r) == IF r = "r1" THEN { <<6, 6, 0>> } ELSE { <<8, 6, 0>> }

NextEnrich ==
    \/ \E r \in Reqs : ReqStart(r, EnrichQuery(r), RaceLimits)
    \/ \E r \in Reqs : ReqLookup(r)
    \/ \E r \in Reqs : ReqEvict(r)
    \/ \E r \in Reqs : ReqCalc(r)
    \/ \E r \in Reqs : ReqPut(r)
    \/ \E r \in Reqs : ReqSummarize(r)
    \/ \E r \in Reqs : ReqCopyBack(r)
    \/ \E r \in Reqs : ReqReturn(r)
    \/ Tick

SpecEnrich == Init /\ [][NextEnrich]_vars

RecordArticles == { "a1", "a4" }
RecordTypes == { "view", "SHARE" }

(* RecordUserEvent calls on a given event table, with the clock.  No       *)
(* trending request runs, so the cache is empty and Range visits nothing.  *)
NextRecord ==
    \/ RecordStart(RecordArticles, RecordTypes, EventPoints)
    \/ RecordCreate
    \/ RangeStart
    \/ WrReturn
    \/ WrFinish
    \/ Tick

SpecRecord == InitScore /\ [][NextRecord]_vars

(* Articles of the ranking runs: the three of TestSortBySearchRelevance    *)
(* and two that differ only in the place their description names           *)
SearchArticles ==
    { [ID |-> "no-match", Title |-> <<"Weather", "Report">>,
       Description |-> <<"Sunny", "day", "ahead">>, RelevanceScore |-> 9],
      [ID |-> "title-match", Title |-> <<"Climate", "Change", "Impact">>,
       Description |-> <<"Environmental", "news">>, RelevanceScore |-> 5],
      [ID |-> "both-match", Title |-> <<"Climate", "Summit">>,
       Description |-> <<"Leaders", "discuss", "climate">>, RelevanceScore |-> 3],
      [ID |-> "paris-talks", Title |-> <<"Climate", "talks">>,
       Description |-> <<"held", "in", "Paris">>, RelevanceScore |-> 5],
      [ID |-> "rome-talks", Title |-> <<"Climate", "talks">>,
       Description |-> <<"held", "in", "Rome">>, RelevanceScore |-> 5] }

SearchQueries ==
    { <<>>, <<"climate">>, <<"Climate", "change">>, <<"climate", "report">> }

(* NamedEntities.Locations of the parsed intent *)
NamedEntitySets == { NoNamedEntities, {"Paris"} }

(* the fetched slices: two or three distinct articles in any order *)
FetchedLists ==
    { l \in UNION { [1..n -> SearchArticles] : n \in 2..3 } :
        \A i, j \in DOMAIN l : i # j => l[i] # l[j] }

InitRank ==
    /\ now = 0
    /\ events = <<>>
    /\ cache = [k \in Keys |-> NoEntry]
    /\ req = [r \in Reqs |-> IdleReq]
    /\ wr = IdleWr
    /\ acked = 0
    /\ LLMInit
    /\ \E q \in SearchQueries, ne \in NamedEntitySets, l \in FetchedLists :
           search = [IdleSearch EXCEPT !.pc = "fetched", !.query = q,
                                       !.namedEntities = ne, !.items = l, !.input = l]

NextRank == Rank

SpecRank == InitRank /\ [][NextRank]_vars

(* Responses of the intent model: no choice at all, text that is not JSON, *)
(* null, and objects with a valid, an unknown and a missing intent, with   *)
(* and without entities and a query entry                                  *)
IntentValues ==
    { [Intent |-> IntentCategory, EntitiesNil |-> FALSE,
       Entities |-> {<<"category", "technology">>}, NamedEntities |-> NoNamedEntities],
      [Intent |-> IntentNearby, EntitiesNil |-> FALSE,
       Entities |-> {<<"query", <<"cafes">> >>}, NamedEntities |-> {"Paris"}],
      [Intent |-> IntentSource, EntitiesNil |-> FALSE,
       Entities |-> {<<"source", "reuters">>, <<"query", <<"climate">> >>},
       NamedEntities |-> NoNamedEntities],
      [Intent |-> "weather", EntitiesNil |-> TRUE,
       Entities |-> {}, NamedEntities |-> NoNamedEntities],
      [Intent |-> "", EntitiesNil |-> FALSE,
       Entities |-> {}, NamedEntities |-> NoNamedEntities] }

IntentResponses ==
    { [choices |-> 0, fenced |-> FALSE, kind |-> "none", value |-> NoIntent] }
    \cup { [choices |-> 1, fenced |-> f, kind |-> k, value |-> NoIntent] :
             f \in BOOLEAN, k \in {"garbage", "null"} }
    \cup { [choices |-> 1, fenced |-> f, kind |-> "object", value |-> v] :
             f \in BOOLEAN, v \in IntentValues }

NextIntent ==
    \/ IntentStart(SearchQueries)
    \/ IntentCallFails
    \/ IntentCallReturns(IntentResponses)
    \/ IntentParse
    \/ IntentFinish

SpecIntent == Init /\ [][NextIntent]_vars

(* One batch of MaxBatch articles against a single-article lookup *)
NextBatch ==
    \/ BatchStart([i \in 1..MaxBatch |-> i])
    \/ \E i \in 1..MaxBatch : WorkerEnter(i)
    \/ \E i \in 1..MaxBatch : WorkerCallFails(i)
    \/ \E i \in 1..MaxBatch : WorkerCallReturns(i)
    \/ \E i \in 1..MaxBatch : WorkerStore(i)
    \/ BatchJoin
    \/ BatchFinish
    \/ SingleEnter("g1", {1})
    \/ SingleCallReturns("g1")
    \/ SingleStore("g1")
    \/ SingleFinish("g1")

SpecBatch == Init /\ [][NextBatch]_vars

(* Repeated enrichment of the same articles: a batch of two and two        *)
(* single-article lookups                                                  *)
NextMemo ==
    \/ BatchStart(<<1, 2>>)
    \/ \E i \in 1..2 : WorkerEnter(i)
    \/ \E i \in 1..2 : WorkerCallFails(i)
    \/ \E i \in 1..2 : WorkerCallReturns(i)
    \/ \E i \in 1..2 : WorkerStore(i)
    \/ BatchJoin
    \/ BatchFinish
    \/ \E g \in Singles : SingleEnter(g, {0, 1})
    \/ \E g \in Singles : SingleCallFails(g)
    \/ \E g \in Singles : SingleCallReturns(g)
    \/ \E g \in Singles : SingleStore(g)
    \/ \E g \in Singles : SingleFinish(g)

SpecMemo == Init /\ [][NextMemo]_vars

StallBatch == <<1, 2, 3>>

(* One batch whose goroutines are scheduled fairly.  The external call is  *)
(* made with context.Background() on a client without a timeout (lines     *)
(* 29-34, 130-140): nothing in the program makes it return, so no fairness *)
(* is assumed for WorkerCallReturns and WorkerCallFails.                   *)
NextStall ==
    \/ BatchStart(StallBatch)
    \/ \E i \in DOMAIN StallBatch : WorkerEnter(i)
    \/ \E i \in DOMAIN StallBatch : WorkerCallFails(i)
    \/ \E i \in DOMAIN StallBatch : WorkerCallReturns(i)
    \/ \E i \in DOMAIN StallBatch : WorkerStore(i)
    \/ BatchJoin
    \/ BatchFinish
    \/ SingleEnter("g1", {1})
    \/ SingleCallReturns("g1")
    \/ SingleStore("g1")
    \/ SingleFinish("g1")

SpecStall ==
    /\ Init
    /\ [][NextStall]_vars
    /\ \A i \in DOMAIN StallBatch : WF_vars(WorkerEnter(i))
    /\ \A i \in DOMAIN StallBatch : WF_vars(WorkerStore(i))
    /\ WF_vars(BatchJoin)
    /\ WF_vars(BatchFinish)

LiveBatch == <<1, 2, 3, 4, 5, 6>>

(* One batch of more articles than the semaphore has slots, its goroutines *)
(* scheduled fairly and every external call returning (a response or an    *)
(* error)                                                                  *)
NextLive ==
    \/ BatchStart(LiveBatch)
    \/ \E i \in DOMAIN LiveBatch : WorkerEnter(i)
    \/ \E i \in DOMAIN LiveBatch : WorkerCallFails(i)
    \/ \E i \in DOMAIN LiveBatch : WorkerCallReturns(i)
    \/ \E i \in DOMAIN LiveBatch : WorkerStore(i)
    \/ BatchJoin
    \/ BatchFinish

SpecLive ==
    /\ Init
    /\ [][NextLive]_vars
    /\ \A i \in DOMAIN LiveBatch : WF_vars(WorkerEnter(i))
    /\ \A i \in DOMAIN LiveBatch : WF_vars(WorkerCallReturns(i))
    /\ \A i \in DOMAIN LiveBatch : WF_vars(WorkerStore(i))
    /\ WF_vars(BatchJoin)


-----------------------------------------------------------------------------
(* Claims on the location-grid cache *)

Done(r) == req[r].pc = "done"

(* C1: a cached entry is served as a hit only while the time of the lookup *)
(* minus the entry's CachedAt is below the TTL; a lookup that finds an     *)
(* expired entry never answers from it: it removes the entry from the      *)
(* cache, and the call recomputes and stores a new entry.                  *)
C1_HitOnlyWhileFresh ==
    \A r \in Reqs :
        /\ (Done(r) /\ req[r].hit) =>
               (req[r].at - req[r].entry.CachedAt) * 3600 < TrendingCacheTTL
        /\ req[r].expired =>
               /\ ~req[r].hit
               /\ req[r].pc \in {"evict", "calc", "put", "done"}
               /\ Done(r) => req[r].entry.CachedAt >= req[r].at

C1_ExpiredIsEvictedAndReplaced ==
    \A r \in Reqs :
        /\ (req[r].pc = "evict" /\ req'[r].pc = "calc") =>
               cache'[KeyOf(r)] = NoEntry
        /\ (req[r].expired /\ req[r].pc = "put" /\ req'[r].pc = "done") =>
               /\ cache'[KeyOf(r)] = req'[r].entry
               /\ cache'[KeyOf(r)] # cache[KeyOf(r)]

C1_TTLExpiry == [](C1_HitOnlyWhileFresh) /\ [][C1_ExpiredIsEvictedAndReplaced]_vars

C1_Witness ==
    \E r \in Reqs :
        /\ Done(r) /\ req[r].expired /\ ~req[r].hit
        /\ cache[KeyOf(r)] = req[r].entry
        /\ req[r].entry.CachedAt * 3600 >= TrendingCacheTTL

(* The band of a radius and the cell of a coordinate, as the claims state  *)
(* them.                                                                   *)
SameBand(r, entry) == TruncDiv(req[r].radius, 10) = TruncDiv(entry.RadiusKm, 10)

CloseTo(r, entry) ==
    /\ Abs(req[r].lat - entry.Location[1]) < 5
    /\ Abs(req[r].lon - entry.Location[2]) < 5

SameCell(r, entry) ==
    /\ TruncDiv(req[r].lat, 5) = TruncDiv(entry.Location[1], 5)
    /\ TruncDiv(req[r].lon, 5) = TruncDiv(entry.Location[2], 5)

(* C2 as stated: a request whose latitude and longitude differ by less     *)
(* than 0.05 degrees from those of the request that stored an entry, with  *)
(* a radius in the same 10 km band, maps to the key of that entry (and so  *)
(* is served from it).                                                     *)
C2_CloseRequestsShareKey ==
    \A r \in Reqs : \A k \in Keys :
        (req[r].pc = "lookup" /\ cache[k] # NoEntry
            /\ CloseTo(r, cache[k]) /\ SameBand(r, cache[k]))
        => KeyOf(r) = k

(* C2 amended: a request finds the entry stored by an earlier request      *)
(* exactly when both fall in the same truncated latitude cell, longitude   *)
(* cell and radius band; a hit is always served from such an entry, and a  *)
(* miss happens only when no such entry is stored.                         *)
C2_SameCellSharesEntry ==
    \A r \in Reqs :
        /\ \A k \in Keys :
             (req[r].pc = "lookup" /\ cache[k] # NoEntry) =>
                 ((SameCell(r, cache[k]) /\ SameBand(r, cache[k])) <=> KeyOf(r) = k)
        /\ (Done(r) /\ req[r].hit) =>
               (SameCell(r, req[r].entry) /\ SameBand(r, req[r].entry))
        /\ (req[r].pc = "calc" /\ ~req[r].expired) =>
               ~\E k \in Keys : /\ cache[k] # NoEntry
                                /\ SameCell(r, cache[k]) /\ SameBand(r, cache[k])

C2_Witness ==
    \E r \in Reqs :
        /\ Done(r) /\ req[r].hit
        /\ req[r].entry.Location # <<req[r].lat, req[r].lon>>
        /\ req[r].entry.RadiusKm # req[r].radius

(* C3: every list returned by computeTrending has at most `limit` entries  *)
(* when 1 <= limit <= maximum, and at most the maximum when limit is 0 or  *)
(* greater than the maximum, whether computed or served from the cache.    *)
C3_ResultWithinLimit ==
    \A r \in Reqs :
        Done(r) =>
            Len(req[r].entry.Articles) <=
                (IF 1 <= req[r].argLimit /\ req[r].argLimit <= MaxArticlesReturn
                 THEN req[r].argLimit ELSE MaxArticlesReturn)

(* C4: recordEvent with a kind outside {view, click, share} returns an     *)
(* invalid-input error and changes nothing: no event is appended and no    *)
(* cache entry is removed or altered.                                      *)
C4_InvalidKindRejected ==
    /\ (wr.op = "record" /\ wr.eventType \notin {"view", "click", "share"}) =>
           (wr.pc = "done" /\ wr.err # "")
    /\ \A i \in DOMAIN events : events[i].EventType \in {"view", "click", "share"}

C4_InvalidKindChangesNothing ==
    (wr.pc = "idle" /\ wr'.op = "record"
        /\ wr'.eventType \notin {"view", "click", "share"})
    => (events' = events /\ cache' = cache /\ wr'.err # "")

C4_InvalidKind == [](C4_InvalidKindRejected) /\ [][C4_InvalidKindChangesNothing]_vars

C4_Witness ==
    /\ wr.pc = "done" /\ wr.op = "record" /\ wr.err # ""
    /\ Len(events) > 0
    /\ \E k \in Keys : cache[k] # NoEntry

(* C5: when invalidateCache or a successful recordEvent returns and no     *)
(* computeTrending ran concurrently with it, the cache holds no entry for  *)
(* any key: one event clears every cell.                                   *)
C5_InvalidationClearsAll ==
    (wr.pc = "done" /\ wr.err = "" /\ ~wr.concurrent) =>
        \A k \in Keys : cache[k] = NoEntry

C5_Witness ==
    /\ wr.pc = "done" /\ wr.op = "record" /\ wr.err = "" /\ ~wr.concurrent
    /\ wr.removed >= 2

(* C6: once recordEvent(e) has returned success, no computeTrending that   *)
(* starts afterwards is answered by a cache hit whose entry was computed   *)
(* from an event set that does not contain e.                              *)
C6_NoStaleHitAfterEvent ==
    \A r \in Reqs :
        (Done(r) /\ req[r].hit) => req[r].entry.evSeen >= req[r].since

-----------------------------------------------------------------------------
(* Summary service *)

BatchCalls == {batch.w[i] : i \in DOMAIN batch.w}

AllCalls == BatchCalls \cup {single[g] : g \in Singles}

InFlightBatch == Cardinality({i \in DOMAIN batch.w : batch.w[i].pc = "call"})

InFlightSingle == Cardinality({g \in Singles : single[g].pc = "call"})

SlotHolders == {i \in DOMAIN batch.w : batch.w[i].pc \in {"call", "store"}}

(* C7: within one GenerateSummariesBatch call at most 5 external           *)
(* summarization calls are in flight at any moment, and a worker is in its *)
(* external call only while it holds one of the semaphore slots.           *)
C7_BatchInFlightAtMostFive ==
    /\ InFlightBatch <= 5
    /\ batch.held = Cardinality(SlotHolders)
    /\ batch.held <= 5

C7_Witness ==
    /\ InFlightBatch = 5
    /\ \E i \in DOMAIN batch.w : batch.w[i].pc = "wait"

(* C8: at no time are more than 5 external summarization calls in flight   *)
(* in the whole process, batches and single-article lookups together.      *)
C8_ProcessInFlightAtMostFive == InFlightBatch + InFlightSingle <= 5

(* C9 as stated: once a successful call for an article has been memoized,  *)
(* every enrichment of that article that begins later issues no external   *)
(* call and returns that same (first) summary.                             *)
C9_LaterEnrichmentReturnsFirstSummary ==
    \A c \in AllCalls :
        c.storedAtEntry # NoSummary =>
            /\ ~c.called
            /\ c.pc = "done" => c.summary = c.storedAtEntry

(* C9 amended: an enrichment that finds a summary for its article in the   *)
(* memo issues no external call and returns the summary the memo held at   *)
(* its lookup; the memo only ever holds the response of a successful call  *)
(* for that very article.                                                  *)
C9_MemoizedIsPureLookup ==
    /\ \A c \in AllCalls :
           c.memoAtEntry # NoSummary =>
               /\ ~c.called
               /\ c.pc = "done"
               /\ c.summary = c.memoAtEntry
    /\ \A a \in SummArticles :
           summaryCache[a] # NoSummary =>
               \E k \in 1..issued[a] : summaryCache[a] = ResponseText(a, k)

C9_Witness ==
    \E c \in AllCalls :
        /\ c.pc = "done"
        /\ c.memoAtEntry # NoSummary
        /\ c.memoAtEntry # c.storedAtEntry

C10_MemoizedWasCalled ==
    \A a \in SummArticles : summaryCache[a] # NoSummary => issued[a] >= 1

C10_NoCallAfterMemo ==
    \A a \in SummArticles : summaryCache[a] # NoSummary => issued'[a] = issued[a]

AllWorkersDone == \A i \in DOMAIN batch.w : batch.w[i].pc = "done"

C12_BatchEventuallyJoins == (batch.pc = "running") ~> (batch.pc = "done")

-----------------------------------------------------------------------------
(* Scoring *)

Min(a, b) == IF a <= b THEN a ELSE b

(* a GetTrendingNews call that missed the cache and has built its result *)
MissResult(r) == req[r].pc \in {"put", "done"} /\ ~req[r].hit

ResultList(r) == req[r].entry.Articles

(* the stored events that count for the result of r: read by its query,    *)
(* inside the time window at the time of the computation, within the       *)
(* radius of the query centre                                              *)
Contributing(r) ==
    { i \in 1..req[r].entry.evSeen :
        /\ events[i].Timestamp >= req[r].entry.CachedAt - TrendingTimeWindow
        /\ IsWithinRadius(req[r].lat, req[r].lon,
                          events[i].Latitude, events[i].Longitude, req[r].radius) }

Eligible(r) ==
    { a \in ArticleStore :
        /\ IsWithinRadius(req[r].lat, req[r].lon, a.Latitude, a.Longitude, req[r].radius)
        /\ a.RelevanceScore >= ScoreThreshold }

NonIncreasing(list) ==
    \A i, j \in DOMAIN list : i < j => list[i].TrendingScore >= list[j].TrendingScore

DistinctIDs(list) ==
    \A i, j \in DOMAIN list : i # j => list[i].ID # list[j].ID

(* C13: on a miss with no event of the window within the radius, the       *)
(* result is the articles within the radius with relevance >= threshold,   *)
(* highest relevance first, up to the limit, each with eventCount 0 and    *)
(* score relevance x 10; an event-driven result has eventCount >= 1 in     *)
(* every entry.                                                            *)
C13_FallbackWhenNoEvents ==
    \A r \in Reqs :
        MissResult(r) =>
            LET list == ResultList(r)
            IN  IF Contributing(r) = {}
                THEN /\ Len(list) = Min(req[r].limit, Cardinality(Eligible(r)))
                     /\ DistinctIDs(list)
                     /\ NonIncreasing(list)
                     /\ \A i \in DOMAIN list :
                            /\ list[i].EventCount = 0
                            /\ \E a \in Eligible(r) :
                                   /\ a.ID = list[i].ID
                                   /\ 10 * list[i].TrendingScore
                                          = a.RelevanceScore * 10 * ScoreScale
                            /\ \A a \in Eligible(r) :
                                   (\A j \in DOMAIN list : list[j].ID # a.ID) =>
                                       a.RelevanceScore * ScoreScale
                                           <= list[i].TrendingScore
                ELSE \A i \in DOMAIN list : list[i].EventCount >= 1

C13_Witness ==
    \E r \in Reqs :
        /\ MissResult(r)
        /\ req[r].entry.evSeen >= 1
        /\ Contributing(r) = {}
        /\ Len(ResultList(r)) >= 2

(* C14: in every result the trending score is non-negative, and it is zero *)
(* only for an entry with zero contributing events and zero base           *)
(* relevance.                                                              *)
C14_ScoreNonNegative ==
    \A r \in Reqs :
        req[r].pc \in {"put", "done"} =>
            \A i \in DOMAIN ResultList(r) :
                LET t == ResultList(r)[i]
                IN  /\ t.TrendingScore >= 0
                    /\ t.TrendingScore = 0 =>
                           /\ t.EventCount = 0
                           /\ ArticleByID(t.ID).RelevanceScore = 0
                    /\ t.EventCount >= 1 => t.TrendingScore > 0

C14_Witness ==
    \E r \in Reqs :
        /\ req[r].pc = "done"
        /\ \E i, j \in DOMAIN ResultList(r) :
               /\ ResultList(r)[i].EventCount >= 1
               /\ ArticleByID(ResultList(r)[i].ID).RelevanceScore = 0
               /\ ResultList(r)[j].EventCount >= 1
               /\ ArticleByID(ResultList(r)[j].ID).RelevanceScore > 0

-----------------------------------------------------------------------------
(* Search ranking *)

Ranked == search.pc = "ranked"

PositionOf(id) == CHOOSE i \in DOMAIN search.items : search.items[i].ID = id

Listed(id) == \E i \in DOMAIN search.items : search.items[i].ID = id

InTitle(item, phrase) == Contains(ToLowerText(item.Title), ToLowerText(phrase))

InDescription(item, phrase) == Contains(ToLowerText(item.Description), ToLowerText(phrase))

WordsFound(item, query) ==
    Cardinality({ i \in DOMAIN query :
                    InTitle(item, <<query[i]>>) \/ InDescription(item, <<query[i]>>) })

(* the text score as C15 states it, in hundredths, for a non-empty query *)
StatedTextScore(item, query) ==
    (IF InTitle(item, query) THEN 50 ELSE 0)
  + (IF InDescription(item, query) THEN 30 ELSE 0)
  + (20 * WordsFound(item, query)) \div Len(query)

(* C15: the ranking returns a permutation of its input in non-increasing   *)
(* order of combined = 0.6 x textScore + 0.4 x relevance, textScore being  *)
(* 0.5 (query in title) + 0.3 (query in description) + 0.2 x share of the  *)
(* query words found, within [0,1]; for the query "climate" the article    *)
(* matching in title and description (relevance 0.3) comes before the      *)
(* title-only match (0.5) and the non-matching article (0.9).              *)
C15_RankedByCombinedScore ==
    (Ranked /\ search.query # <<>>) =>
        /\ Len(search.items) = Len(search.input)
        /\ \A a \in SearchArticles :
               Cardinality({ i \in DOMAIN search.items : search.items[i] = a })
                   = Cardinality({ i \in DOMAIN search.input : search.input[i] = a })
        /\ \A i \in DOMAIN search.items :
               LET a == search.items[i]
                   text == StatedTextScore(a, search.query)
               IN  /\ text >= 0 /\ text <= 100
                   /\ search.scores[a.ID] = 6 * text + 4 * (10 * a.RelevanceScore)
        /\ \A i, j \in DOMAIN search.items :
               i < j => search.scores[search.items[i].ID] >= search.scores[search.items[j].ID]
        /\ (search.query = <<"climate">> /\ Listed("both-match")) =>
               /\ Listed("title-match") => PositionOf("both-match") < PositionOf("title-match")
               /\ Listed("no-match") => PositionOf("both-match") < PositionOf("no-match")

C15_Witness ==
    /\ Ranked
    /\ search.query = <<"climate">>
    /\ search.input[1].ID = "no-match"
    /\ Len(search.items) = 3
    /\ search.items[1].ID = "both-match"
    /\ search.items[2].ID = "title-match"
    /\ search.items[3].ID = "no-match"

RankedByRelevance ==
    \A i, j \in DOMAIN search.items :
        i < j => search.items[i].RelevanceScore >= search.items[j].RelevanceScore

(* C16 as stated: with an empty query the textScore of every article is 0  *)
(* (the combined score is 0.4 x relevance) and the articles are ordered by *)
(* descending base relevance.                                              *)
C16_EmptyQueryTextScoreZero ==
    (Ranked /\ search.query = <<>>) =>
        /\ \A i \in DOMAIN search.items :
               search.scores[search.items[i].ID]
                   = 6 * 0 + 4 * (10 * search.items[i].RelevanceScore)
        /\ RankedByRelevance

(* C16 amended: with an empty query every article has the same textScore   *)
(* 0.8 (the empty string is contained in every title and description, and  *)
(* there are no query words), so the articles are ordered by descending    *)
(* base relevance.                                                         *)
C16_EmptyQueryConstantTextScore ==
    (Ranked /\ search.query = <<>>) =>
        /\ \A i \in DOMAIN search.items :
               search.scores[search.items[i].ID]
                   = 6 * 80 + 4 * (10 * search.items[i].RelevanceScore)
        /\ RankedByRelevance

C16_Witness ==
    /\ Ranked
    /\ search.query = <<>>
    /\ Len(search.items) = 3
    /\ search.input[1].RelevanceScore < search.input[2].RelevanceScore
    /\ search.items[1].RelevanceScore > search.items[3].RelevanceScore

MentionsEntity(item) ==
    \E e \in search.namedEntities : InTitle(item, <<e>>) \/ InDescription(item, <<e>>)

SameTextMatch(a, b) ==
    calculateTextMatchScore(a, ToLowerText(search.query))
        = calculateTextMatchScore(b, ToLowerText(search.query))

(* C17: when the intent layer supplies named entities, of two articles     *)
(* with the same base relevance and the same match against the query text  *)
(* the one whose title or description matches a named entity gets a        *)
(* strictly higher ranking score and is placed first.                      *)
C17_NamedEntityRanksFirst ==
    (Ranked /\ search.namedEntities # NoNamedEntities) =>
        \A i, j \in DOMAIN search.items :
            LET a == search.items[i]
                b == search.items[j]
            IN  (/\ a.RelevanceScore = b.RelevanceScore
                 /\ SameTextMatch(a, b)
                 /\ MentionsEntity(a)
                 /\ ~MentionsEntity(b)) =>
                    /\ search.scores[a.ID] > search.scores[b.ID]
                    /\ i < j

ParsedIntentWellFormed ==
    search.pc = "parsed" =>
        /\ search.intent.Intent \in {"category", "source", "search", "nearby", "score"}
        /\ ~search.intent.EntitiesNil
        /\ HasKey(search.intent.Entities, "query")
        /\ (search.callErr \/ search.parseErr) =>
               /\ search.intent.Intent = "search"
               /\ search.intent.Entities = {<<"query", search.query>>}

(* C18: ParseIntent never fails the request; after a failed call or an     *)
(* unparseable response it returns intent search with entities             *)
(* {query: originalQuery}; in every case the returned intent is one of     *)
(* category, source, search, nearby, score and the entities hold a query   *)
(* entry.                                                                  *)
C18_ParseIntentNeverFails ==
    /\ search.pc # "panic"
    /\ ParsedIntentWellFormed

-----------------------------------------------------------------------------
(* Result list and event store *)

(* the articles scored for the result of r, from the events its query read *)
ScoredFor(r) ==
    calculateTrendingScores(req[r].lat, req[r].lon, req[r].radius,
                            SubSeq(events, 1, req[r].entry.evSeen),
                            req[r].entry.CachedAt)

C19_TopOfScored ==
    \A r \in Reqs :
        MissResult(r) =>
            LET list == ResultList(r)
                listed == { list[i] : i \in DOMAIN list }
            IN  /\ Len(list) = Min(EffectiveLimit(req[r].argLimit),
                                   Cardinality(ScoredFor(r)))
                /\ listed \subseteq ScoredFor(r)
                /\ DistinctIDs(list)
                /\ NonIncreasing(list)
                /\ \A t \in ScoredFor(r) \ listed :
                       \A i \in DOMAIN list : t.TrendingScore <= list[i].TrendingScore
                /\ req[r].pc = "done" => cache[KeyOf(r)] = req[r].entry

C19_PutStoresResult ==
    \A r \in Reqs :
        (req[r].pc = "put" /\ req'[r].pc = "done") =>
            /\ cache'[KeyOf(r)] = req[r].entry
            /\ req'[r].entry = req[r].entry

(* C19: on a miss the returned list is exactly the min(effective limit, n) *)
(* highest-scoring of the n scored articles, in non-increasing order of    *)
(* score, and that same list is stored in the cache under the request's    *)
(* key.                                                                    *)
C19_ReturnsTopLimitAndStoresIt == [](C19_TopOfScored) /\ [][C19_PutStoresResult]_vars

C19_Witness ==
    \E r \in Reqs :
        /\ MissResult(r)
        /\ req[r].pc = "done"
        /\ Cardinality(ScoredFor(r)) = 2
        /\ Len(ResultList(r)) = 1
        /\ ResultList(r)[1].EventCount >= 1
        /\ cache[KeyOf(r)].Articles = ResultList(r)

(* the row a RecordUserEvent call in progress stands for *)
EventOf(call, t) ==
    [ArticleID |-> call.articleID, UserID |-> call.userID, EventType |-> call.eventType,
     Latitude |-> call.point[1], Longitude |-> call.point[2], Timestamp |-> t]

C20_OnlyCreateAppends ==
    events' # events =>
        /\ wr.op = "record" /\ wr.pc = "create" /\ wr.err = ""
        /\ wr.eventType \in {"view", "click", "share"}
        /\ Len(events') = Len(events) + 1
        /\ SubSeq(events', 1, Len(events)) = events
        /\ events'[Len(events')] = EventOf(wr, now)
        /\ req' = req /\ cache' = cache

C20_AcceptedEventIsStored ==
    (wr.op = "record" /\ wr.err = "" /\ wr.pc \notin {"idle", "create"}) =>
        /\ Len(events) >= 1
        /\ \E t \in 0..now : events[Len(events)] = EventOf(wr, t)

C20_RejectedStoresNothing ==
    (wr.op = "record" /\ wr.err # "") => (wr.pc = "done" /\ Len(events) = acked)

(* C20: the event store changes only through a successful recordEvent,     *)
(* which appends exactly one event carrying the given article, actor, kind *)
(* and coordinates; computeTrending, invalidateCache and a rejected        *)
(* recordEvent leave it unchanged, and no stored event is modified or      *)
(* deleted.                                                                *)
C20_EventStoreAppendOnly ==
    /\ [](C20_AcceptedEventIsStored /\ C20_RejectedStoresNothing)
    /\ [][C20_OnlyCreateAppends]_vars

C20_Witness ==
    /\ Len(events) = 2
    /\ wr.op = "record" /\ wr.pc = "done" /\ wr.err = ""
    /\ \E r \in Reqs : req[r].pc = "done" /\ ~req[r].hit /\ req[r].entry.evSeen = 1

-----------------------------------------------------------------------------
(* Cache key on both sides of zero *)

(* floor(x / y) for y > 0 *)
Floor(x, y) == x \div y

FloorCell(lat, lon, radius) == <<Floor(lat, 5), Floor(lon, 5), Floor(radius, 10)>>

(* C21: for every latitude, longitude and radius, negative coordinates     *)
(* included, the cache key is (floor(lat / 0.05), floor(lon / 0.05),       *)
(* floor(radiusKm / 10)); two points in different floor-cells (latitudes   *)
(* -0.03 and 0.03) never share a key, so a request is never served from an *)
(* entry stored for another floor-cell.                                    *)
C21_KeyIsFloorCell ==
    \A r \in Reqs :
        /\ req[r].pc # "idle" =>
               KeyOf(r) = FloorCell(req[r].lat, req[r].lon, req[r].radius)
        /\ (Done(r) /\ req[r].hit) =>
               FloorCell(req[r].lat, req[r].lon, req[r].radius)
                   = FloorCell(req[r].entry.Location[1], req[r].entry.Location[2],
                               req[r].entry.RadiusKm)

-----------------------------------------------------------------------------
(* Event-driven results *)

ContributingTo(r, id) == { i \in Contributing(r) : events[i].ArticleID = id }

(* the stored articles that have a contributing event *)
WithEvents(r) == { id \in ArticleIDs : ContributingTo(r, id) # {} }

(* C22: on a miss an event contributes iff its timestamp is >= now - time  *)
(* window and its own location is within the radius of the query centre;   *)
(* contributing events are grouped by article, the eventCount of every     *)
(* event-driven entry is the number of contributing events of its article, *)
(* and an article without a contributing event is in no event-driven       *)
(* result.                                                                 *)
C22_EventCountIsContributing ==
    \A r \in Reqs :
        MissResult(r) =>
            LET list == ResultList(r)
            IN  IF Contributing(r) = {}
                THEN \A i \in DOMAIN list : list[i].EventCount = 0
                ELSE /\ Len(list) = Min(req[r].limit, Cardinality(WithEvents(r)))
                     /\ DistinctIDs(list)
                     /\ \A i \in DOMAIN list :
                            /\ list[i].ID \in WithEvents(r)
                            /\ list[i].EventCount
                                   = Cardinality(ContributingTo(r, list[i].ID))

C22_Witness ==
    \E r \in Reqs :
        /\ MissResult(r)
        /\ req[r].entry.evSeen = 2
        /\ Cardinality(Contributing(r)) = 1
        /\ \E i \in 1..2 :
               /\ events[i].Timestamp < req[r].entry.CachedAt - TrendingTimeWindow
               /\ IsWithinRadius(req[r].lat, req[r].lon,
                                 events[i].Latitude, events[i].Longitude, req[r].radius)
        /\ Len(ResultList(r)) = 1
        /\ ResultList(r)[1].EventCount = 1

StatedWeight(kind) ==
    CASE kind = "view"  -> 1
      [] kind = "click" -> 2
      [] kind = "share" -> 3

RECURSIVE StatedSum(_, _)
(* sum over the events idx of EventWeight(kind) x decay(hours since event) *)
StatedSum(idx, t) ==
    IF idx = {} THEN 0
    ELSE LET i == CHOOSE j \in idx : TRUE
         IN  StatedWeight(events[i].EventType)
                 * CalculateRecencyFactor(t - events[i].Timestamp)
             + StatedSum(idx \ {i}, t)

(* C23: for an article with n >= 1 contributing events the trending score  *)
(* is (sum over its events of EventWeight(kind) x decay(hours since the    *)
(* event)) x (1 + 0.2 x relevanceScore) x (1.5 if the article is strictly  *)
(* less than 10 km from the query centre, else 1), with view = 1,          *)
(* click = 2, share = 3 and the decay applied once per event;              *)
(* ComputeTrendingScore is 0 for eventCount 0 and 20 for (10, 20, 1.0).    *)
(* Scores are in units of 1 / ScoreScale = 1 / (10000 x 100 x 2).   *)
C23_ScoreFormula ==
    /\ ComputeTrendingScore(0, 10, 1) = 0
    /\ ComputeTrendingScore(10, 20, 1) = 20
    /\ \A r \in Reqs :
           MissResult(r) =>
               \A i \in DOMAIN ResultList(r) :
                   LET t == ResultList(r)[i]
                       a == ArticleByID(t.ID)
                       d == HaversineDistance(req[r].lat, req[r].lon,
                                              a.Latitude, a.Longitude)
                   IN  t.EventCount >= 1 =>
                           t.TrendingScore =
                               StatedSum(ContributingTo(r, t.ID), req[r].entry.CachedAt)
                                   * (100 + 2 * a.RelevanceScore)
                                   * (IF d < 10000 THEN 3 ELSE 2)

C23_Witness ==
    \E r \in Reqs :
        /\ MissResult(r)
        /\ Len(ResultList(r)) = 1
        /\ ResultList(r)[1].EventCount = 2
        /\ \E i, j \in ContributingTo(r, ResultList(r)[1].ID) :
               /\ events[i].Timestamp < events[j].Timestamp
               /\ events[i].EventType # events[j].EventType
        /\ req[r].entry.CachedAt = 1

-----------------------------------------------------------------------------
(* Batch join *)

C24_JoinedAfterAllWritten ==
    batch.pc = "done" =>
        /\ batch.held = 0
        /\ \A i \in DOMAIN batch.w :
               /\ batch.w[i].pc = "done"
               /\ batch.w[i].summary # NoSummary

-----------------------------------------------------------------------------
(* Fallback *)

(* C25: on a miss, whenever the scoring step yields no trending result,    *)
(* the fallback ranking is applied; so when the only events in range name  *)
(* article IDs that are not in the article store, the response is the      *)
(* fallback list, empty only if no article within the radius reaches the   *)
(* relevance threshold.                                                    *)
C25_FallbackWhenNothingScored ==
    \A r \in Reqs :
        (MissResult(r) /\ WithEvents(r) = {}) =>
            LET list == ResultList(r)
            IN  /\ Len(list) = Min(req[r].limit, Cardinality(Eligible(r)))
                /\ \A i \in DOMAIN list :
                       /\ list[i].EventCount = 0
                       /\ \E a \in Eligible(r) : a.ID = list[i].ID

-----------------------------------------------------------------------------
(* Lazy eviction *)

Evicts(r, k) == req[r].pc = "evict" /\ req'[r].pc = "calc" /\ KeyOf(r) = k

Removed(k) == cache[k] # NoEntry /\ cache'[k] = NoEntry

(* C27 as stated: a lookup removes only an entry that is itself expired;   *)
(* under every interleaving of concurrent requests for one key, a fresh    *)
(* entry stored by one request's put is never deleted by another request's *)
(* lazy eviction of the older expired entry.                               *)
C27_OnlyExpiredEntryRemoved ==
    [][\A k \in Keys :
          Removed(k) => (now - cache[k].CachedAt) * 3600 >= TrendingCacheTTL]_vars

C27_EvictionFollowsExpiredLoad ==
    \A k \in Keys :
        Removed(k) =>
            \E r \in Reqs :
                /\ Evicts(r, k)
                /\ req[r].expired
                /\ req[r].found # NoEntry
                /\ (req[r].at - req[r].found.CachedAt) * 3600 >= TrendingCacheTTL

C27_EvictorIsExpired ==
    \A r \in Reqs :
        req[r].pc = "evict" =>
            /\ req[r].found # NoEntry
            /\ (req[r].at - req[r].found.CachedAt) * 3600 >= TrendingCacheTTL

(* C27 amended: a lookup deletes the key only after its own Load returned  *)
(* an entry for that key that was expired at that time; the Delete removes *)
(* whatever is stored under the key by then, the expired entry or an entry *)
(* another request has put since the Load.                                 *)
C27_EvictionByKeyAfterExpiredLoad ==
    [](C27_EvictorIsExpired) /\ [][C27_EvictionFollowsExpiredLoad]_vars

C27_Witness ==
    \E r, q \in Reqs :
        /\ r # q
        /\ KeyOf(r) = KeyOf(q)
        /\ req[r].pc = "calc" /\ req[r].expired
        /\ req[q].pc = "done" /\ ~req[q].hit
        /\ (now - req[q].entry.CachedAt) * 3600 < TrendingCacheTTL
        /\ cache[KeyOf(q)] = NoEntry

-----------------------------------------------------------------------------
(* Limits *)

(* C28: for every integer limit, negative values included, computeTrending *)
(* on a cache miss completes without a run-time failure and returns a list *)
(* of between 0 and the configured maximum number of entries.              *)
C28_AnyLimitCompletes ==
    \A r \in Reqs :
        /\ req[r].pc # "panic"
        /\ MissResult(r) =>
               (Len(ResultList(r)) >= 0 /\ Len(ResultList(r)) <= MaxArticlesReturn)

-----------------------------------------------------------------------------
(* Location of the returned articles *)

ArticleWithin(r, id) ==
    HaversineDistance(req[r].lat, req[r].lon,
                      ArticleByID(id).Latitude, ArticleByID(id).Longitude)
        <= req[r].radius * 1000

(* C29 as stated: every article in a list returned by computeTrending,     *)
(* event-driven or fallback, is itself located within radiusKm of the      *)
(* query centre.                                                           *)
C29_EveryArticleWithinRadius ==
    \A r \in Reqs :
        MissResult(r) =>
            \A i \in DOMAIN ResultList(r) : ArticleWithin(r, ResultList(r)[i].ID)

(* C29 amended: in a list computed on a miss every fallback entry is an    *)
(* article located within radiusKm of the query centre, and every          *)
(* event-driven entry is an article with at least one event of the time    *)
(* window whose own location is within radiusKm of the centre; the         *)
(* location of such an article is not tested.                              *)
C29_FallbackWithinRadiusEventsInRange ==
    \A r \in Reqs :
        MissResult(r) =>
            \A i \in DOMAIN ResultList(r) :
                LET t == ResultList(r)[i]
                IN  IF t.EventCount = 0
                    THEN ArticleWithin(r, t.ID) /\ Contributing(r) = {}
                    ELSE \E e \in Contributing(r) :
                             /\ events[e].ArticleID = t.ID
                             /\ HaversineDistance(req[r].lat, req[r].lon,
                                                  events[e].Latitude, events[e].Longitude)
                                    <= req[r].radius * 1000

C29_Witness ==
    \E r \in Reqs :
        /\ MissResult(r)
        /\ \E i \in DOMAIN ResultList(r) :
               /\ ResultList(r)[i].EventCount >= 1
               /\ ~ArticleWithin(r, ResultList(r)[i].ID)

-----------------------------------------------------------------------------
(* One more event *)

(* the scored articles of a fresh computation for query q on the table evs *)
Fresh(q, evs) == calculateTrendingScores(q[1], q[2], EffectiveRadius(q[3]), evs, now)

(* the step that stores the event of a successful RecordUserEvent *)
Recorded == wr.pc = "create" /\ events' = Append(events, EventOf(wr, now))

InRadiusOf(q) ==
    HaversineDistance(q[1], q[2], wr.point[1], wr.point[2])
        <= EffectiveRadius(q[3]) * 1000

NotLowered(q, before) ==
    \E after \in Fresh(q, events') :
        after.ID = before.ID /\ after.TrendingScore >= before.TrendingScore

(* C30 as stated: recording one more valid event for article A within the  *)
(* query radius never lowers A's trending score: of two fresh computations *)
(* for the same centre, radius and instant, before and after the           *)
(* recordEvent, the later score of A is >= the earlier one if A appeared   *)
(* before, also when the earlier computation was a fallback result.        *)
C30_EventNeverLowersScore ==
    [][Recorded =>
          \A q \in ScoreQueries :
              InRadiusOf(q) =>
                  \A before \in Fresh(q, events) :
                      before.ID = wr.articleID => NotLowered(q, before)]_vars

(* C30 amended: the same for an article that had at least one contributing *)
(* event in the earlier computation, where the score strictly grows; a     *)
(* fallback score (relevance x 10) is replaced by the event-driven score.  *)
C30_EventRaisesEventDrivenScore ==
    [][Recorded =>
          \A q \in ScoreQueries :
              InRadiusOf(q) =>
                  /\ \A before \in Fresh(q, events) :
                         (before.ID = wr.articleID /\ before.EventCount >= 1) =>
                             \E after \in Fresh(q, events') :
                                 /\ after.ID = before.ID
                                 /\ after.EventCount = before.EventCount + 1
                                 /\ after.TrendingScore > before.TrendingScore
                  /\ \A after \in Fresh(q, events') :
                         after.ID = wr.articleID =>
                             /\ after.EventCount >= 1
                             /\ after.TrendingScore
                                    >= GetEventWeight(wr.eventType)
                                           * CalculateRecencyFactor(0) * 100 * 2]_vars

C30_Witness ==
    /\ wr.op = "record" /\ wr.pc = "done" /\ wr.err = ""
    /\ Len(events) = 2
    /\ events[1].ArticleID = wr.articleID
    /\ events[2] = EventOf(wr, now)
    /\ events[1].EventType # events[2].EventType
    /\ events[1].Timestamp < now
    /\ events[1].Timestamp >= now - TrendingTimeWindow
    /\ events[1].Latitude = 6

-----------------------------------------------------------------------------
(* In-place writes to a stored result list *)

(* the object stored under k stays stored over the step *)
StaysStored(k) == SameObject(cache[k], cache'[k])

(* two requests are both inside the copy-back loop on one object *)
SharedCopyBack ==
    \E r, q \in Reqs :
        /\ r # q
        /\ req[r].pc = "copy"
        /\ req[q].pc = "copy"
        /\ SameObject(req[r].entry, req[q].entry)

(* C26: a result list stored in the cache is never written in place after  *)
(* the put: while an entry stays stored its elements, summary fields       *)
(* included, do not change, and no two requests for the same cell write    *)
(* the elements of one list without synchronisation.                       *)
C26_StoredListNeverWrittenInPlace ==
    /\ [][\A k \in Keys : StaysStored(k) => cache'[k] = cache[k]]_vars
    /\ [](~SharedCopyBack)

=============================================================================
